---------------------------- MODULE Spec2Model ----------------------------
(***************************************************************************)
(* quotelessstrings.py: the Name value type (a str subclass whose          *)
(* operators render themselves as text) and the import-time pass that      *)
(* binds every undefined name of the importing program to a Name.          *)
(*                                                                         *)
(* Host semantics assumed: CPython 3.6 - 3.10 (two-byte wordcode, f_lasti  *)
(* a byte offset, COMPARE_OP carrying the operator as written), which is   *)
(* what the comments of cop() describe.                                    *)
(***************************************************************************)
EXTENDS Integers, Sequences, FiniteSets, TLC

VARIABLES
    isMain,     \* this module's  __name__ == '__main__'
    globalsOf,  \* module name -> that module's globals dict (name -> value)
    builtins,   \* the names of __builtins__
    codes,      \* the importing program's code objects: id -> [co_names, co_consts]
    chain,      \* the frames above the module body, nearest first (f_back order)
    frame,      \* the frame the walk is at: an index into chain, 0 before the walk
    f_locals,   \* frame.f_locals of the frame the walk stopped at
    names,      \* findnames(frame.f_code), the tuple the population loop iterates
    i,          \* position of the population loop in names
    pc,         \* position of the whole program
    globals0,   \* snapshot: globalsOf when the module body started
    locals0,    \* snapshot: the local bindings of the frame the walk stopped at
        last        \* the last operation evaluated by the importing program

vars == <<isMain, globalsOf, builtins, codes, chain, frame, f_locals, names, i,
          pc, globals0, locals0, last>>

popVars == <<isMain, globalsOf, builtins, codes, chain, frame, f_locals, names,
             i, globals0, locals0>>

engineVars == <<last>>

---------------------------------------------------------------------------
(* Bounds of the model. *)

\* Longest text of a Name that a further operation is applied to.
MaxLen == 3

\* Most positional values in a call.
MaxArgs == 2

\* Most named values in a call.
MaxKwargs == 1

\* Most frames above the module body.
MaxChain == 3

\* Code objects of the importing program.
NCodes == 3

---------------------------------------------------------------------------
(* Values of the host language that the model distinguishes. *)

NameOf(t) == [type |-> "Name", text |-> t, n |-> 0]

StrVal(t) == [type |-> "str", text |-> t, n |-> 0]

IntVal(k) == [type |-> "int", text |-> "", n |-> k]

MethodVal(t) == [type |-> "builtin_function_or_method", text |-> t, n |-> 0]

NoValue == [type |-> "NoneType", text |-> "None", n |-> 0]

Digit(d) ==
    CASE d = 0 -> "0" [] d = 1 -> "1" [] d = 2 -> "2" [] d = 3 -> "3"
      [] d = 4 -> "4" [] d = 5 -> "5" [] d = 6 -> "6" [] d = 7 -> "7"
      [] d = 8 -> "8" [] d = 9 -> "9"

RECURSIVE Decimal(_)
Decimal(k) == IF k < 10 THEN Digit(k) ELSE Decimal(k \div 10) \o Digit(k % 10)

IntToStr(k) == IF k < 0 THEN "-" \o Decimal(-k) ELSE Decimal(k)

\* f'{v}' and str(v): the text of a str or a Name, the decimal form of an int.
Str(v) == IF v.type = "int" THEN IntToStr(v.n) ELSE v.text

---------------------------------------------------------------------------
(* The three operator decorators. *)

lop(operator, self, other) == NameOf(Str(self) \o operator \o Str(other))

\* Fault: rop rendering self first, as lop does.
ropAsLop(operator, self, other) == NameOf(Str(self) \o operator \o Str(other))

rop(operator, self, other) == NameOf(Str(other) \o operator \o Str(self))

\* dis.get_instructions(frame.f_code)[frame.f_lasti // 2]; sequences are 1-based.
lasti(fr) == fr.instrs[(fr.f_lasti \div 2) + 1]

\* A handler's outcome: the value returned, or the exception raised.
Returned(v) == [result |-> v, exc |-> ""]

Raised(e) == [result |-> NoValue, exc |-> e]

\* Fault: cop without its assert.
copNoSanityCheck(operator, self, other, fr) ==
    IF lasti(fr).argval = operator
    THEN Returned(NameOf(Str(self) \o operator \o Str(other)))
    ELSE Returned(NameOf(Str(other) \o lasti(fr).argval \o Str(self)))

\* Fault: cop that never consults the written operator.
copNoFlip(operator, self, other, fr) ==
    IF lasti(fr).opname # "COMPARE_OP"
    THEN Raised("AssertionError")
    ELSE Returned(NameOf(Str(self) \o operator \o Str(other)))

cop(operator, self, other, fr) ==
    IF lasti(fr).opname # "COMPARE_OP"
    THEN Raised("AssertionError")
    ELSE IF lasti(fr).argval = operator
         THEN Returned(NameOf(Str(self) \o operator \o Str(other)))
         ELSE Returned(NameOf(Str(other) \o lasti(fr).argval \o Str(self)))

---------------------------------------------------------------------------
(* class Name(str): the decorated methods, in the order of the class body. *)

ClassBody ==
    << <<"lop", "+",  "__add__">>,      <<"rop", "+",  "__radd__">>,
       <<"lop", "-",  "__sub__">>,      <<"rop", "-",  "__rsub__">>,
       <<"lop", "*",  "__mul__">>,      <<"rop", "*",  "__rmul__">>,
       <<"lop", "@",  "__matmul__">>,   <<"rop", "@",  "__rmatmul__">>,
       <<"lop", "/",  "__truediv__">>,  <<"rop", "/",  "__rtruediv__">>,
       <<"lop", "//", "__floordiv__">>, <<"rop", "//", "__rfloordiv__">>,
       <<"lop", "%",  "__mod__">>,      <<"rop", "%",  "__rmod__">>,
       <<"lop", "**", "__pow__">>,      <<"rop", "**", "__rpow__">>,
       <<"lop", "<<", "__lshift__">>,   <<"rop", "<<", "__rlshift__">>,
       <<"lop", ">>", "__rshift__">>,   <<"rop", ">>", "__rrshift__">>,
       <<"lop", "&",  "__and__">>,      <<"rop", "&",  "__rand__">>,
       <<"lop", "|",  "__or__">>,       <<"rop", "|",  "__ror__">>,
       <<"lop", "^",  "__xor__">>,      <<"rop", "^",  "__rxor__">>,
       <<"lop", "==", "__eq__">>,       <<"rop", "==", "__req__">>,
       <<"lop", "!=", "__ne__">>,       <<"rop", "!=", "__rne__">>,
       <<"cop", ">",  "__gt__">>,
       <<"cop", "<",  "__lt__">>,
       <<"cop", ">=", "__ge__">>,
       <<"cop", "<=", "__le__">>,
       <<"lop", ".",  "__getattr__">> >>

Method(dunder) ==
    ClassBody[CHOOSE k \in 1..Len(ClassBody) : ClassBody[k][3] = dunder]

\* self.<dunder>(other), called from the frame fr.
CallMethod(dunder, self, other, fr) ==
    LET m == Method(dunder)
    IN  CASE m[1] = "lop" -> Returned(lop(m[2], self, other))
          [] m[1] = "rop" -> Returned(rop(m[2], self, other))
          [] m[1] = "cop" -> cop(m[2], self, other, fr)


\* def __call__(self, *args, **kwargs); kwargs is a tuple of <<key, value>>.
RECURSIVE join(_, _)
join(sep, strs) ==
    IF Len(strs) = 0 THEN ""
    ELSE IF Len(strs) = 1 THEN strs[1]
    ELSE strs[1] \o sep \o join(sep, Tail(strs))

\* Fault: __call__ rendering a named value without its name.
callKeysDropped(self, args, kwargs) ==
    NameOf(Str(self) \o "(" \o
           join(",", [k \in 1..Len(args) |-> Str(args[k])]
                     \o [k \in 1..Len(kwargs) |-> Str(kwargs[k][2])]) \o ")")

__call__(self, args, kwargs) ==
    LET strs == [k \in 1..Len(args) |-> Str(args[k])]
                \o [k \in 1..Len(kwargs) |->
                        kwargs[k][1] \o "=" \o Str(kwargs[k][2])]
    IN  NameOf(Str(self) \o "(" \o join(",", strs) \o ")")

__getitem__(self, key) == NameOf(Str(self) \o "[" \o Str(key) \o "]")

__invert__(self) == NameOf("~" \o Str(self))

---------------------------------------------------------------------------
(* How the interpreter reaches the methods of Name.                        *)

\* operator symbol, method of the left operand, reflected method of the right
\* operand, and (for the binary operators) the instruction that evaluates it.
BinarySlots ==
    << <<"+", "__add__", "__radd__", "BINARY_ADD">>,
       <<"-", "__sub__", "__rsub__", "BINARY_SUBTRACT">>,
       <<"*", "__mul__", "__rmul__", "BINARY_MULTIPLY">>,
       <<"@", "__matmul__", "__rmatmul__", "BINARY_MATRIX_MULTIPLY">>,
       <<"/", "__truediv__", "__rtruediv__", "BINARY_TRUE_DIVIDE">>,
       <<"//", "__floordiv__", "__rfloordiv__", "BINARY_FLOOR_DIVIDE">>,
       <<"%", "__mod__", "__rmod__", "BINARY_MODULO">>,
       <<"**", "__pow__", "__rpow__", "BINARY_POWER">>,
       <<"<<", "__lshift__", "__rlshift__", "BINARY_LSHIFT">>,
       <<">>", "__rshift__", "__rrshift__", "BINARY_RSHIFT">>,
       <<"&", "__and__", "__rand__", "BINARY_AND">>,
       <<"|", "__or__", "__ror__", "BINARY_OR">>,
       <<"^", "__xor__", "__rxor__", "BINARY_XOR">> >>

\* Rich comparison has no __r*__ methods: the reflection of < is >, of <= is >=,
\* and == and != are their own reflections.
CompareSlots ==
    << <<"<",  "__lt__", "__gt__">>,
       <<"<=", "__le__", "__ge__">>,
       <<">",  "__gt__", "__lt__">>,
       <<">=", "__ge__", "__le__">>,
       <<"==", "__eq__", "__eq__">>,
       <<"!=", "__ne__", "__ne__">> >>

Slot(slots, sym) == slots[CHOOSE k \in 1..Len(slots) : slots[k][1] = sym]

BinarySymbols == {BinarySlots[k][1] : k \in 1..Len(BinarySlots)}

OrderingSymbols == {"<", "<=", ">", ">="}

EqualitySymbols == {"==", "!="}

\* `x sym y` with at least one operand a Name.  A Name on the left answers with
\* its own method, which never returns NotImplemented.  With an int on the left
\* the int's method returns NotImplemented and the reflected method of the Name
\* on the right is called; with a plain str on the left the Name, being of a
\* subclass of str that overrides the reflected method, is asked first.
Dispatch(slots, sym, x, y, fr) ==
    LET s == Slot(slots, sym)
    IN  IF x.type = "Name"
        THEN CallMethod(s[2], x, y, fr)
        ELSE CallMethod(s[3], y, x, fr)

\* Names that ordinary attribute lookup finds on an instance of a str subclass;
\* __getattr__ is called only for the others.
StrAttributes ==
    {"capitalize", "casefold", "center", "count", "encode", "endswith",
     "expandtabs", "find", "format", "format_map", "index", "isalnum",
     "isalpha", "isdecimal", "isdigit", "islower", "isspace", "istitle",
     "isupper", "join", "ljust", "lower", "lstrip", "partition", "replace",
     "rfind", "rindex", "rjust", "rpartition", "rsplit", "rstrip", "split",
     "splitlines", "startswith", "strip", "swapcase", "title", "translate",
     "upper", "zfill"}

GetAttr(self, attr, fr) ==
    IF attr \in StrAttributes
    THEN Returned(MethodVal(attr))
    ELSE CallMethod("__getattr__", self, StrVal(attr), fr)

\* The frame of the importing program while one instruction of it executes:
\* the two operands have been loaded and the instruction at byte offset 4 runs.
Site(opname, argval) ==
    [instrs |-> << [opname |-> "LOAD_NAME",    argval |-> "a"],
                   [opname |-> "LOAD_NAME",    argval |-> "b"],
                   [opname |-> opname,         argval |-> argval],
                   [opname |-> "POP_TOP",      argval |-> ""],
                   [opname |-> "LOAD_CONST",   argval |-> "None"],
                   [opname |-> "RETURN_VALUE", argval |-> ""] >>,
     f_lasti |-> 4]

---------------------------------------------------------------------------
(* The import-time pass (the module body under `if __name__ != '__main__'`). *)

Modules == {"__main__", "importlib._bootstrap"}

EmptyDict == [n \in {} |-> NoValue]

\* d[name] = value
SetItem(d, name, value) ==
    [n \in DOMAIN d \cup {name} |-> IF n = name THEN value ELSE d[n]]

\* What is bound before the import statement runs.
InitialGlobals ==
    [m \in Modules |->
        IF m = "__main__"
        THEN [n \in {"__name__", "x"} |->
                 IF n = "__name__" THEN StrVal("__main__") ELSE IntVal(1)]
        ELSE [n \in {"__name__", "sys"} |->
                 IF n = "__name__" THEN StrVal(m) ELSE StrVal("<module 'sys'>")]]

InitialBuiltins == {"print", "len"}

\* The fast locals of a function of the importing program that runs the import.
FunctionLocals == [n \in {"y"} |-> IntVal(2)]

\* frame.f_globals
FrameGlobals(fr) == globalsOf[fr.module]

\* frame.f_locals when the frame is looked at: the frame of module-level code has
\* its globals dict as its locals; a function's frame has a dict of its own.
FrameLocals(fr) ==
    IF fr.code = 1 THEN globalsOf[fr.module] ELSE FunctionLocals

OtherConst == [kind |-> "other", id |-> 0]

CodeConst(c) == [kind |-> "code", id |-> c]

\* Fault: findnames that does not descend into co_consts.
findnamesFlat(c) == codes[c].co_names

\* names = code.co_names; for const in code.co_consts[1..k]: names += findnames(const)
RECURSIVE findnamesLoop(_, _)
findnames(c) == findnamesLoop(c, Len(codes[c].co_consts))

findnamesLoop(c, k) ==
    IF k = 0 THEN codes[c].co_names
    ELSE LET const == codes[c].co_consts[k]
         IN  IF const.kind = "code"
             THEN findnamesLoop(c, k - 1) \o findnames(const.id)
             ELSE findnamesLoop(c, k - 1)

\* Fault: the loop condition without the test against frame.f_globals.
UndefinedIgnoringGlobals(name, fr) ==
    /\ name \notin builtins
    /\ name \notin DOMAIN f_locals

\* name not in __builtins__ and name not in frame.f_globals and name not in frame.f_locals
Undefined(name, fr) ==
    /\ name \notin builtins
    /\ name \notin DOMAIN FrameGlobals(fr)
    /\ name \notin DOMAIN f_locals

\* if __name__ != '__main__':  is false: the module body ends.
RunAsMain ==
    /\ pc = "import"
    /\ isMain
    /\ pc' = "done"
    /\ UNCHANGED <<popVars, engineVars>>

\* frame = inspect.currentframe().f_back
StartWalk ==
    /\ pc = "import"
    /\ ~isMain
    /\ frame' = 1
    /\ pc' = "walk"
    /\ UNCHANGED <<isMain, globalsOf, builtins, codes, chain, f_locals, names, i,
                   globals0, locals0, engineVars>>

\* Fault: a loop condition that is never true, so the walk stops at once.
NotMainNever(fr) == FALSE

\* the loop condition
NotMain(fr) == FrameGlobals(fr)["__name__"] # StrVal("__main__")

\* one iteration of the while loop: frame = frame.f_back
WalkBack ==
    /\ pc = "walk"
    /\ frame <= Len(chain)
    /\ NotMain(chain[frame])
    /\ frame' = frame + 1
    /\ UNCHANGED <<isMain, globalsOf, builtins, codes, chain, f_locals, names, i,
                   pc, globals0, locals0, engineVars>>

\* frame is None (the stack held no frame of __main__): frame.f_globals raises.
WalkOffStack ==
    /\ pc = "walk"
    /\ frame > Len(chain)
    /\ pc' = "error"
    /\ UNCHANGED <<popVars, engineVars>>

\* the loop ends; for name in findnames(frame.f_code):
WalkStop ==
    /\ pc = "walk"
    /\ frame <= Len(chain)
    /\ ~NotMain(chain[frame])
    /\ names' = findnames(chain[frame].code)
    /\ i' = 1
    /\ f_locals' = FrameLocals(chain[frame])
    /\ locals0' = FrameLocals(chain[frame])
    /\ pc' = "populate"
    /\ UNCHANGED <<isMain, globalsOf, builtins, codes, chain, frame, globals0,
                   engineVars>>

\* one iteration of the for loop.  frame.f_globals[name] = Name(name) writes the
\* one dict that module-level code has as both its globals and its locals.
Populate ==
    /\ pc = "populate"
    /\ i <= Len(names)
    /\ LET fr == chain[frame]
           name == names[i]
       IN  IF Undefined(name, fr)
           THEN /\ globalsOf' = [globalsOf EXCEPT ![fr.module] =
                                    SetItem(@, name, NameOf(name))]
                /\ f_locals' = IF fr.code = 1
                               THEN SetItem(FrameGlobals(fr), name, NameOf(name))
                               ELSE f_locals
           ELSE UNCHANGED <<globalsOf, f_locals>>
    /\ i' = i + 1
    /\ UNCHANGED <<isMain, builtins, codes, chain, frame, names, pc, globals0,
                   locals0, engineVars>>

\* the for loop is exhausted: the import statement returns to the program.
PopulateEnd ==
    /\ pc = "populate"
    /\ i > Len(names)
    /\ pc' = "run"
    /\ UNCHANGED <<popVars, engineVars>>

---------------------------------------------------------------------------
(* The importing programs and call stacks the pass is run on. *)

LoaderFrame == [module |-> "importlib._bootstrap", code |-> 0]

MainFrame(c) == [module |-> "__main__", code |-> c]

\* The code object of the import machinery's function that executes the module.
LoaderCode == [co_names |-> <<"sys", "spec">>, co_consts |-> <<OtherConst>>]

\* co_consts entries of code c for the code objects compiled directly inside it.
RECURSIVE ChildConsts(_, _, _, _)
ChildConsts(parent, c, d, n) ==
    IF d > n THEN <<>>
    ELSE (IF parent[d] = c THEN <<CodeConst(d)>> ELSE <<>>)
         \o ChildConsts(parent, c, d + 1, n)

\* Code 1 is the module's code; code d > 1 is compiled inside code parent[d].
CodeTable(parent, conames, n) ==
    [c \in 0..n |->
        IF c = 0 THEN LoaderCode
        ELSE [co_names  |-> conames[c],
              co_consts |-> <<OtherConst>> \o ChildConsts(parent, c, c + 1, n)]]

CoNamesChoices ==
    { <<"print", "x", "john">>, <<"y", "john", "smith">>, <<>> }

CodeTables ==
    { CodeTable(parent, conames, NCodes) :
        parent \in {p \in [2..NCodes -> 1..NCodes] : \A d \in 2..NCodes : p[d] < d},
        conames \in [1..NCodes -> CoNamesChoices] }

\* Call stacks above the module body, nearest frame first.  Module-level code of
\* the importing program can only be the outermost frame.
Chains ==
    UNION { { ch \in [1..n -> {LoaderFrame} \cup {MainFrame(c) : c \in 1..NCodes}] :
                \A k \in 1..(n - 1) : ch[k] # MainFrame(1) } : n \in 1..MaxChain }

\* A program that uses the undefined name a at module level and in a function,
\* and the undefined name b only in a lambda inside that function.
ExampleCodes ==
    CodeTable([d \in 2..3 |-> d - 1],
              [c \in 1..3 |-> CASE c = 1 -> <<"print", "a">>
                                [] c = 2 -> <<"a", "x", "len">>
                                [] c = 3 -> <<"b">>],
              3)

NoOp ==
    [kind |-> "none", sym |-> "", x |-> NoValue, y |-> NoValue, args |-> <<>>,
     kwargs |-> <<>>, opname |-> "", result |-> NoValue, exc |-> ""]

InitCommon ==
    /\ globalsOf = InitialGlobals
    /\ builtins = InitialBuiltins
    /\ frame = 0
    /\ f_locals = EmptyDict
    /\ names = <<>>
    /\ i = 0
    /\ pc = "import"
    /\ globals0 = InitialGlobals
    /\ locals0 = EmptyDict
    /\ last = NoOp

\* Run as a script the module body is the outermost frame; imported, it has callers.
PopInit ==
    /\ isMain \in BOOLEAN
    /\ codes \in CodeTables
    /\ chain \in IF isMain THEN {<<>>} ELSE Chains
    /\ InitCommon

Init ==
    /\ isMain \in BOOLEAN
    /\ codes = ExampleCodes
    /\ chain \in IF isMain THEN {<<>>}
                 ELSE { <<LoaderFrame, LoaderFrame, MainFrame(1)>>, <<LoaderFrame>> }
    /\ InitCommon

PopNext ==
    \/ RunAsMain
    \/ StartWalk
    \/ WalkBack
    \/ WalkOffStack
    \/ WalkStop
    \/ Populate
    \/ PopulateEnd


---------------------------------------------------------------------------
(* The importing program evaluating expressions over its Names.            *)

\* The Names the pass has bound in the importing program's globals.
Seeds ==
    LET g == globalsOf["__main__"]
    IN  {g[n] : n \in {m \in DOMAIN g : g[m].type = "Name"}}

\* The Name the next operation is applied to: the previous result, or a bound Name.
Operand ==
    {v \in (IF last.result.type = "Name" THEN {last.result} ELSE Seeds) :
        Len(Str(v)) <= MaxLen}

NonTokens == {IntVal(12), StrVal("s")}

Atoms == Seeds \cup NonTokens

ArgValues == {IntVal(1), StrVal("s")}

Keywords == {"x", "sep"}

ArgTuples == UNION {[1..n -> ArgValues] : n \in 0..MaxArgs}

\* Keyword arguments in call order; a keyword cannot be repeated in a call.
KwargTuples ==
    UNION { { kw \in [1..n -> Keywords \X ArgValues] :
                \A j, k \in 1..n : j # k => kw[j][1] # kw[k][1] } : n \in 0..MaxKwargs }

\* Attribute names the program uses: b and c are defined nowhere, title by str.
AttrNames == {"b", "c", "title"}

\* The program evaluates one operation; an exception ends it.
Evaluate(kind, sym, x, y, args, kwargs, opname, out) ==
    /\ last' = [kind |-> kind, sym |-> sym, x |-> x, y |-> y, args |-> args,
                kwargs |-> kwargs, opname |-> opname,
                result |-> out.result, exc |-> out.exc]
    /\ pc' = IF out.exc = "" THEN "run" ELSE "error"
    /\ UNCHANGED popVars

\* self <sym> other  and  other <sym> self, sym an arithmetic or bitwise operator
EvalBinary ==
    /\ pc = "run"
    /\ \E sym \in BinarySymbols, self \in Operand, other \in Atoms,
          selfLeft \in BOOLEAN :
          LET x == IF selfLeft THEN self ELSE other
              y == IF selfLeft THEN other ELSE self
              opname == Slot(BinarySlots, sym)[4]
          IN  Evaluate("binary", sym, x, y, <<>>, <<>>, opname,
                       Dispatch(BinarySlots, sym, x, y, Site(opname, "")))

\* self <sym> other  and  other <sym> self, sym one of < <= > >=
EvalCompare ==
    /\ pc = "run"
    /\ \E sym \in OrderingSymbols, self \in Operand, other \in Atoms,
          selfLeft \in BOOLEAN :
          LET x == IF selfLeft THEN self ELSE other
              y == IF selfLeft THEN other ELSE self
          IN  Evaluate("compare", sym, x, y, <<>>, <<>>, "COMPARE_OP",
                       Dispatch(CompareSlots, sym, x, y, Site("COMPARE_OP", sym)))

\* self == other, other == self, self != other, other != self
EvalEquality ==
    /\ pc = "run"
    /\ \E sym \in EqualitySymbols, self \in Operand, other \in Atoms,
          selfLeft \in BOOLEAN :
          LET x == IF selfLeft THEN self ELSE other
              y == IF selfLeft THEN other ELSE self
          IN  Evaluate("equality", sym, x, y, <<>>, <<>>, "COMPARE_OP",
                       Dispatch(CompareSlots, sym, x, y, Site("COMPARE_OP", sym)))

\* ~self
EvalInvert ==
    /\ pc = "run"
    /\ \E self \in Operand :
          Evaluate("invert", "~", self, NoValue, <<>>, <<>>, "UNARY_INVERT",
                   Returned(__invert__(self)))

\* self(*args, **kwargs)
EvalCall ==
    /\ pc = "run"
    /\ \E self \in Operand, args \in ArgTuples, kwargs \in KwargTuples :
          Evaluate("call", "()", self, NoValue, args, kwargs, "CALL_FUNCTION",
                   Returned(__call__(self, args, kwargs)))

\* self[key]
EvalSubscript ==
    /\ pc = "run"
    /\ \E self \in Operand, key \in Atoms :
          Evaluate("subscript", "[]", self, key, <<>>, <<>>, "BINARY_SUBSCR",
                   Returned(__getitem__(self, key)))

\* self.attr
EvalAttribute ==
    /\ pc = "run"
    /\ \E self \in Operand, attr \in AttrNames :
          Evaluate("attribute", ".", self, StrVal(attr), <<>>, <<>>, "LOAD_ATTR",
                   GetAttr(self, attr, Site("LOAD_ATTR", attr)))

\* An ordering handler reached without a comparison in the calling frame, as in
\* self.__lt__(other), or through sorted(), min() and max().
CallHandler ==
    /\ pc = "run"
    /\ \E dunder \in {"__lt__", "__le__", "__gt__", "__ge__"},
          self \in Operand, other \in Atoms :
          Evaluate("handler", dunder, self, other, <<>>, <<>>, "CALL_METHOD",
                   CallMethod(dunder, self, other, Site("CALL_METHOD", "1")))

Next ==
    \/ PopNext
    \/ EvalBinary
    \/ EvalCompare
    \/ EvalEquality
    \/ EvalInvert
    \/ EvalCall
    \/ EvalSubscript
    \/ EvalAttribute
    \/ CallHandler

Spec == Init /\ [][Next]_vars

PopSpec == PopInit /\ [][PopNext]_vars

---------------------------------------------------------------------------
(* Properties.  Written operands are last.x (left) and last.y (right).     *)

Main == "__main__"

\* The literal infix rendering of `x sym y`, in the written operand order.
Infix(x, sym, y) == NameOf(Str(x) \o sym \o Str(y))

\* items[1], then "," and items[k] for each later k.
RECURSIVE CommaSeparated(_)
CommaSeparated(items) ==
    IF Len(items) = 0 THEN ""
    ELSE IF Len(items) = 1 THEN items[1]
    ELSE CommaSeparated(SubSeq(items, 1, Len(items) - 1)) \o "," \o items[Len(items)]

\* The textual forms of the positional values, then name=value of the named ones.
CallItems(args, kwargs) ==
    [k \in 1..(Len(args) + Len(kwargs)) |->
        IF k <= Len(args) THEN Str(args[k])
        ELSE kwargs[k - Len(args)][1] \o "=" \o Str(kwargs[k - Len(args)][2])]

\* The code objects compiled inside code c at any depth, c included.
RECURSIVE CompiledWithin(_)
CompiledWithin(c) ==
    {c} \cup UNION { CompiledWithin(codes[c].co_consts[k].id) :
                       k \in {j \in 1..Len(codes[c].co_consts) :
                                codes[c].co_consts[j].kind = "code"} }

\* Every identifier referenced by code c or by a callable compiled inside it.
ReferencedNames(c) ==
    UNION { {codes[d].co_names[k] : k \in 1..Len(codes[d].co_names)} :
              d \in CompiledWithin(c) }

HasMainContext == \E k \in 1..Len(chain) : chain[k].module = Main

\* The nearest context of the caller chain that belongs to the top-level program.
InnermostMain ==
    CHOOSE k \in 1..Len(chain) :
        /\ chain[k].module = Main
        /\ \A j \in 1..(k - 1) : chain[j].module # Main

(* C1: for every binary arithmetic or bitwise operator, `a op b` with a Name on
   the left, and `v op a` with an int or a plain str on the left and a Name on
   the right, succeed and yield a Name whose text is the text of the left
   operand, the operator symbol, and the text of the right operand; nothing is
   computed numerically. *)
C1_BinaryRendering ==
    last.kind = "binary" =>
        /\ last.exc = ""
        /\ last.result = Infix(last.x, last.sym, last.y)

\* `12 // a` evaluated to the Name 12//a through the reflected method.
C1_Witness ==
    /\ last.kind = "binary"
    /\ last.sym = "//"
    /\ last.x = IntVal(12)
    /\ last.y = NameOf("a")
    /\ last.result = NameOf("12//a")

(* C2: an ordering comparison `x op y` with at least one Name operand yields a
   Name whose text is x, the operator as written, y, in the written order,
   whether the interpreter called the left Name's method for op or swapped the
   operands and called the right Name's method for the transposed operator. *)
C2_ComparisonAsWritten ==
    last.kind = "compare" =>
        /\ last.exc = ""
        /\ last.result = Infix(last.x, last.sym, last.y)

\* `"s" < a`, dispatched swapped to a.__gt__("s"), evaluated to the Name s<a.
C2_Witness ==
    /\ last.kind = "compare"
    /\ last.sym = "<"
    /\ last.x = StrVal("s")
    /\ last.y = NameOf("a")
    /\ last.result = NameOf("s<a")

(* C3: when the population pass has completed, every identifier referenced by
   the importing context's code or by a callable compiled inside it at any
   depth, that was in none of the builtins, the caller's globals and the
   caller's locals before the pass, is bound in the caller's globals to a Name
   whose text is the identifier. *)
C3_UnresolvedNamesBound ==
    pc = "run" =>
        \A x \in ReferencedNames(chain[frame].code) :
            (/\ x \notin InitialBuiltins
             /\ x \notin DOMAIN globals0[Main]
             /\ x \notin DOMAIN locals0)
            => /\ x \in DOMAIN globalsOf[Main]
               /\ globalsOf[Main][x] = NameOf(x)

\* A name used only two levels below the importing context's code was bound.
C3_Witness ==
    /\ pc = "run"
    /\ \E d \in DOMAIN codes, e \in DOMAIN codes :
          /\ CodeConst(d) \in {codes[chain[frame].code].co_consts[k] :
                                 k \in 1..Len(codes[chain[frame].code].co_consts)}
          /\ CodeConst(e) \in {codes[d].co_consts[k] : k \in 1..Len(codes[d].co_consts)}
          /\ codes[e].co_names = <<"y", "john", "smith">>
          /\ codes[d].co_names = <<>>
          /\ codes[chain[frame].code].co_names = <<"print", "x", "john">>
    /\ "smith" \in DOMAIN globalsOf[Main]
    /\ globalsOf[Main]["smith"] = NameOf("smith")

\* Every binding of dict d is in dict e with the same value.
Kept(d, e) == \A n \in DOMAIN d : n \in DOMAIN e /\ e[n] = d[n]

\* What one step of the pass may do, apart from what it does to the local tier.
C4_StepCommon ==
    /\ builtins' = builtins
    /\ \A m \in Modules : Kept(globalsOf[m], globalsOf'[m])
    /\ pc = "populate" => Kept(f_locals, f_locals')
    /\ \A m \in Modules :
          \A n \in DOMAIN globalsOf'[m] \ DOMAIN globalsOf[m] :
              /\ n \notin builtins
              /\ n \notin DOMAIN globalsOf[m]
              /\ n \notin DOMAIN f_locals

(* C4 as claimed: the pass only adds bindings; every name bound in the
   caller's globals or locals or present in the builtins keeps its value, no
   binding is removed or replaced, the local and builtin tiers are left
   unchanged, and every inserted name was absent from all three tiers when it
   was inserted. *)
C4_Original ==
    [][ /\ C4_StepCommon
        /\ pc = "populate" => f_locals' = f_locals ]_vars

(* C4 as amended: the same, except that the local tier is left unchanged only
   when the importing context is a function, whose locals are a mapping of
   their own; when the importing context is module-level code its local tier
   is the module-level namespace itself and gains exactly the inserted names. *)
C4_OnlyAddsBindings ==
    [][ /\ C4_StepCommon
        /\ (pc = "populate" /\ chain[frame].code # 1) => f_locals' = f_locals
        /\ (pc = "populate" /\ chain[frame].code = 1)
              => f_locals' = globalsOf'[chain[frame].module] ]_vars

\* A module-level import: john was inserted, x (bound before and referenced)
\* kept its value, and the local tier shows the insertion.
C4_Witness ==
    /\ pc = "run"
    /\ chain[frame].code = 1
    /\ \E k \in 1..Len(names) : names[k] = "x"
    /\ globalsOf[Main]["x"] = IntVal(1)
    /\ "john" \in DOMAIN globalsOf[Main] \ DOMAIN globals0[Main]
    /\ "john" \in DOMAIN f_locals \ DOMAIN locals0

(* C5: accessing any attribute n of a Name with text A yields the Name A.n,
   also for a name n that str itself defines. *)
C5_AttributeRendering ==
    last.kind = "attribute" =>
        /\ last.exc = ""
        /\ last.result = Infix(last.x, ".", last.y)

(* C6: `a == v` yields the Name A==v and `v == a` the Name v==A (likewise for
   !=), in the written operand order, without raising; `a == a` yields A==A. *)
C6_EqualityAsWritten ==
    last.kind = "equality" =>
        /\ last.exc = ""
        /\ last.result = Infix(last.x, last.sym, last.y)

(* C7: calling a Name with text A on positional values p1..pn and named values
   k1=v1..km=vm yields the Name whose text is A, "(", the textual forms of the
   positional values followed by the entries ki=vi, in call order, joined by
   single commas without spaces, and ")". *)
C7_CallRendering ==
    last.kind = "call" =>
        /\ last.exc = ""
        /\ last.result =
              NameOf(Str(last.x) \o "("
                     \o CommaSeparated(CallItems(last.args, last.kwargs)) \o ")")

\* a(1, "s", x=1) evaluated to the Name a(1,s,x=1).
C7_Witness ==
    /\ last.kind = "call"
    /\ last.x = NameOf("a")
    /\ last.args = <<IntVal(1), StrVal("s")>>
    /\ last.kwargs = << <<"x", IntVal(1)>> >>
    /\ last.result = NameOf("a(1,s,x=1)")

(* C8: when an ordering handler of a Name runs while the calling frame's
   current instruction is not a comparison, it raises the assertion error,
   returns no Name, and the error ends the program. *)
C8_FailsOffComparisonSite ==
    (last.kind \in {"compare", "handler"} /\ last.opname # "COMPARE_OP") =>
        /\ last.exc = "AssertionError"
        /\ last.result = NoValue
        /\ pc = "error"

\* a.__gt__(12) called as a method raised and ended the program.
C8_Witness ==
    /\ last.kind = "handler"
    /\ last.sym = "__gt__"
    /\ last.x = NameOf("a")
    /\ last.y = IntVal(12)
    /\ last.exc = "AssertionError"
    /\ pc = "error"

(* C9: every supported operation on Names bound by the pass or produced by
   earlier operations (ordering comparisons at a genuine comparison site)
   succeeds and yields a Name again, and leaves the bound Names as they were. *)
C9_ClosedUnderOperations ==
    (pc \in {"run", "error"} /\ last.kind \notin {"none", "handler"}) =>
        /\ last.exc = ""
        /\ last.result.type = "Name"
        /\ globalsOf[Main]["a"] = NameOf("a")
        /\ globalsOf[Main]["b"] = NameOf("b")

(* C10: imported, the walk starts at the immediate caller and, when the chain
   holds a context of the top-level program, never passes the innermost such
   context, can always take its next step, and stops there: that context's
   code supplies the enumerated names and only its globals receive Names.
   Run as the top-level program, there is no walk and no population. *)
C10_WalkStopsAtInnermostMain ==
    /\ isMain => /\ pc \in {"import", "done"}
                 /\ frame = 0
                 /\ globalsOf = globals0
    /\ (~isMain /\ HasMainContext) =>
          /\ pc # "error"
          /\ frame <= InnermostMain
          /\ pc = "import" => frame = 0
          /\ pc = "walk" => frame >= 1 /\ ENABLED (WalkBack \/ WalkStop)
          /\ pc \in {"populate", "run"} =>
                /\ frame = InnermostMain
                /\ {names[k] : k \in 1..Len(names)}
                      = ReferencedNames(chain[InnermostMain].code)
                /\ \A m \in Modules \ {chain[InnermostMain].module} :
                      globalsOf[m] = globals0[m]

\* The walk skipped a loader frame and stopped at a function of the top-level
\* program, nearer than the program's module-level frame.
C10_Witness ==
    /\ pc = "run"
    /\ Len(chain) = 3
    /\ chain[1] = LoaderFrame
    /\ chain[2] = MainFrame(2)
    /\ chain[3] = MainFrame(1)
    /\ frame = 2

=============================================================================
